---- MODULE Spec2Model ----
(***************************************************************************)
(* A model of ward's test model (src/ward/testing.py): the Test dataclass, *)
(* parameterisation with Each, and the recursive, scope-aware resolution   *)
(* of fixtures against a shared FixtureCache.                              *)
(*                                                                         *)
(* Values are tagged records, so that a Fixture wrapper, the value a       *)
(* factory produced, a literal default and None are all distinguishable.   *)
(***************************************************************************)
EXTENDS Integers, Sequences, FiniteSets, TLC

(***************************************************************************)
(* Bounds of the model.                                                    *)
(***************************************************************************)
\* the orchestrator makes at most MaxResolves calls of resolve_args
MaxResolves == 3
\* at most MaxTests Test objects exist in one behaviour
MaxTests == 8

(***************************************************************************)
(* Values.                                                                 *)
(***************************************************************************)
None == [kind |-> "None"]

Lit(v) == [kind |-> "lit", v |-> v]

FixtureRef(f) == [kind |-> "fix", f |-> f]

\* dataclass Each: a tuple of arguments, indexable, with a length
Each(args) == [kind |-> "each", args |-> args]

\* EachGetItem ignoring the index
EachGetItemFirst(each, i) == each.args[1]

\* Each.__getitem__ with Python's 0-based index
EachGetItem(each, i) == each.args[i + 1]

EachLen(each) == Len(each.args)

IsEach(arg) == arg.kind = "each"

\* hasattr(arg, "ward_meta") and arg.ward_meta.is_fixture
IsFixtureFn(arg) == arg.kind = "fix"

EmptyMap == [x \in {} |-> None]

(***************************************************************************)
(* The fixture factories of the run and their signatures.                  *)
(*   fa(b=fb)   fb(c=fc)   fc()   fd(c=fc)   fe()   fl(n=3)                 *)
(* fc and fd are generator (two-phase) fixtures; the default of fl's       *)
(* parameter is a plain value, not a fixture factory.                      *)
(***************************************************************************)
Fixtures == {"fa", "fb", "fc", "fd", "fe", "fl"}

Param(name, default) == [name |-> name, default |-> default]

FixtureParams ==
  [f \in Fixtures |->
     CASE f = "fa" -> << Param("b", FixtureRef("fb")) >>
       [] f = "fb" -> << Param("c", FixtureRef("fc")) >>
       [] f = "fd" -> << Param("c", FixtureRef("fc")) >>
       [] f = "fl" -> << Param("n", Lit(3)) >>
       [] OTHER    -> << >>]

GeneratorFixtures == {"fc", "fd"}

Scopes == {"Test", "Module", "Global"}

\* the scope declarations of the run considered: the uniform ones, and
\* one in which fixtures have a wider scope than the fixture they depend on
ScopeConfigs ==
  { [f \in Fixtures |-> "Test"],
    [f \in Fixtures |-> "Module"],
    [f \in Fixtures |-> "Global"],
    [f \in Fixtures |-> CASE f = "fa" -> "Global" [] f = "fb" -> "Module"
                          [] f = "fc" -> "Test"   [] f = "fd" -> "Global"
                          [] OTHER    -> "Module"] }

(***************************************************************************)
(* The test functions of the run and their signatures.                     *)
(***************************************************************************)
TestFns == {"t_none", "t_chain", "t_diamond", "t_each", "t_bad", "t_lit"}

TestParams ==
  [fn \in TestFns |->
     CASE fn = "t_chain"   -> << Param("x", FixtureRef("fa")) >>
       [] fn = "t_diamond" -> << Param("p", FixtureRef("fd")),
                                 Param("q", FixtureRef("fb")),
                                 Param("c", FixtureRef("fc")),
                                 Param("k", Lit(5)) >>
       [] fn = "t_each"    -> << Param("x", Each(<< FixtureRef("fc"), Lit(1) >>)),
                                 Param("y", Each(<< Lit(2), FixtureRef("fe") >>)),
                                 Param("z", Lit(7)) >>
       [] fn = "t_bad"     -> << Param("x", Each(<< Lit(1), Lit(2) >>)),
                                 Param("y", Each(<< Lit(3), Lit(4), Lit(5) >>)) >>
       [] fn = "t_lit"     -> << Param("x", FixtureRef("fl")) >>
       [] OTHER            -> << >>]

\* the Test objects the collector has constructed when the run starts
DeclaredTests ==
  << [fn |-> "t_none",    module_name |-> "M", marker |-> None, description |-> None],
     [fn |-> "t_chain",   module_name |-> "M", marker |-> None, description |-> Lit("chain")],
     [fn |-> "t_diamond", module_name |-> "N", marker |-> [kind |-> "xfail", reason |-> "r"], description |-> None],
     [fn |-> "t_each",    module_name |-> "M", marker |-> [kind |-> "skip", reason |-> "s"], description |-> Lit("each")],
     [fn |-> "t_bad",     module_name |-> "N", marker |-> None, description |-> Lit("bad")],
     [fn |-> "t_lit",     module_name |-> "M", marker |-> None, description |-> None] >>

VARIABLES
  scope,     \* Fixture.scope of each factory (fixed when the factory is declared)
  tests,     \* the Test objects: object -> [fn, module_name, id, marker, description]
  next_id,   \* source of fresh ids
  cache,     \* the FixtureCache: key -> Fixture
  calls,     \* number of invocations of each factory so far
  raised,    \* number of invocations of each factory that raised
  generators,\* per generator factory, per invocation: how often its generator was resumed
  resolves,  \* number of resolve_args calls so far
  log,       \* events of the most recent resolve_args call, in program order
  result     \* outcome of the most recent operation

vars == << scope, tests, next_id, cache, calls, raised, generators, resolves, log, result >>

(***************************************************************************)
(* Fixture and FixtureCache (ward.fixtures).                               *)
(***************************************************************************)
\* Fixture(fixture_fn): a wrapper with no resolution state yet
NewFixture(fixture_fn) ==
  [kind |-> "Fixture", fn |-> fixture_fn, resolved_val |-> None, gen |-> None,
   last_resolved_test_id |-> None, last_resolved_module_name |-> None]

\* Fixture.key: the identity of the wrapped factory
FixtureKey(fixture) == fixture.fn

\* Fixture.deps(): the declared parameters of the factory
FixtureDeps(fixture) == FixtureParams[fixture.fn]

\* Fixture.is_generator_fixture
IsGeneratorFixture(fixture) == fixture.fn \in GeneratorFixtures

\* key in cache
CacheContains(c, key) == key \in DOMAIN c

\* FixtureCache.cache_fixture: store under the fixture's key, overwriting
CacheFixture(c, fixture) ==
  [k \in DOMAIN c \cup {FixtureKey(fixture)} |->
     IF k = FixtureKey(fixture) THEN fixture ELSE c[k]]

(***************************************************************************)
(* What a factory does when it is invoked.  The n-th invocation of factory *)
(* f with keyword arguments kwargs produces a value that records all       *)
(* three, so two invocations never produce the same value.                 *)
(***************************************************************************)
FactoryValue(f, n, kwargs) == [kind |-> "val", f |-> f, n |-> n, args |-> kwargs]

\* the k-th value the generator of the n-th invocation of f yields
YieldedValue(f, n, kwargs, k) ==
  [kind |-> "val", f |-> f, n |-> n, args |-> kwargs, yield |-> k]

\* the generator object of the n-th invocation, after `resumed` calls of next()
GeneratorHandle(f, n, resumed) == [kind |-> "gen", f |-> f, n |-> n, resumed |-> resumed]

\* GeneratorNext resuming the generator twice
GeneratorNextTwice(gen, kwargs) ==
  [gen |-> GeneratorHandle(gen.f, gen.n, gen.resumed + 2),
   val |-> YieldedValue(gen.f, gen.n, kwargs, gen.resumed + 2)]

\* next(fixture.gen): resume the generator once and take what it yields
GeneratorNext(gen, kwargs) ==
  [gen |-> GeneratorHandle(gen.f, gen.n, gen.resumed + 1),
   val |-> YieldedValue(gen.f, gen.n, kwargs, gen.resumed + 1)]

\* the exception a failing factory raises
FactoryException(f, n) == [kind |-> "Exception", f |-> f, n |-> n]

\* raise FixtureError(...) from e
FixtureError(f, e) == [kind |-> "FixtureError", fixture |-> f, cause |-> e]

(***************************************************************************)
(* Test._resolve_single_fixture and its helpers.  The resolution state st  *)
(* is [cache, calls, raised, generators, log, err, unmarked]; err is None   *)
(* until an exception propagates; unmarked is what wrapping a value that   *)
(* is not a fixture factory leads to.                                      *)
(***************************************************************************)
Event(ev, f, n, kwargs) == [ev |-> ev, f |-> f, n |-> n, kwargs |-> kwargs]

Logged(st, e) == [st EXCEPT !.log = Append(@, e)]

\* ResolveFixtureValues handing on the Fixture wrappers themselves
ResolveFixtureValuesWrapped(fixture_dict) == fixture_dict

\* Test._resolve_fixture_values: name -> Fixture becomes name -> resolved_val
ResolveFixtureValues(fixture_dict) ==
  [key \in DOMAIN fixture_dict |-> fixture_dict[key].resolved_val]

\* ScopeValid with the Global rule replaced by the Module rule
ScopeValidGlobalAsModule(self, sc, cached_fixture) ==
  CASE sc = "Test" -> cached_fixture.last_resolved_test_id = self.id
    [] OTHER       -> cached_fixture.last_resolved_module_name = self.module_name

\* ScopeValid with the Module rule ignoring the requesting module
ScopeValidModuleAlways(self, sc, cached_fixture) ==
  CASE sc = "Test" -> cached_fixture.last_resolved_test_id = self.id
    [] OTHER       -> TRUE

\* ScopeValid with the Test rule comparing modules instead of ids
ScopeValidTestByModule(self, sc, cached_fixture) ==
  CASE sc = "Global" -> TRUE
    [] OTHER         -> cached_fixture.last_resolved_module_name = self.module_name

\* ScopeValid with the Test rule never accepting the cached Fixture
ScopeValidTestNever(self, sc, cached_fixture) ==
  CASE sc = "Global" -> TRUE
    [] sc = "Module" -> cached_fixture.last_resolved_module_name = self.module_name
    [] sc = "Test"   -> FALSE

\* the scope check of a cached Fixture against the requesting test
ScopeValid(self, sc, cached_fixture) ==
  CASE sc = "Global" -> TRUE
    [] sc = "Module" -> cached_fixture.last_resolved_module_name = self.module_name
    [] sc = "Test"   -> cached_fixture.last_resolved_test_id = self.id

\* IsCacheHit never taking the branch
IsCacheHitNever(self, fixture, sc, c) == FALSE

\* the branch of _resolve_single_fixture that returns the cached Fixture
IsCacheHit(self, fixture, sc, c) ==
  /\ CacheContains(c, FixtureKey(fixture))
  /\ ScopeValid(self, sc[fixture.fn], c[FixtureKey(fixture)])

\* StoreInCache keeping an entry the cache already has
StoreInCacheIfAbsent(c, fixture) ==
  IF CacheContains(c, FixtureKey(fixture)) THEN c ELSE CacheFixture(c, fixture)

\* cache.cache_fixture(fixture) once the factory has produced its value
StoreInCache(c, fixture) == CacheFixture(c, fixture)

\* invoke the factory (one next() for a generator), wrap an exception in a
\* FixtureError, cache the resolved Fixture
InvokeFactory(fixture, kwargs, st, raiser) ==
  LET f  == fixture.fn
      n  == st.calls[f] + 1
      g  == GeneratorNext(GeneratorHandle(f, n, 0), kwargs)
      s0 == IF IsGeneratorFixture(fixture)
              THEN [st EXCEPT !.generators[f] = Append(@, g.gen.resumed)]
              ELSE st
      s1 == Logged([s0 EXCEPT !.calls[f] = n], Event("call", f, n, kwargs))
  IN IF f = raiser
       THEN [st |-> [Logged(s1, Event("raise", f, n, EmptyMap))
                       EXCEPT !.err = FixtureError(f, FactoryException(f, n)),
                              !.raised[f] = @ + 1],
             fixture |-> None]
       ELSE LET resolved ==
                  IF IsGeneratorFixture(fixture)
                    THEN [fixture EXCEPT !.gen = g.gen, !.resolved_val = g.val]
                    ELSE [fixture EXCEPT !.resolved_val = FactoryValue(f, n, kwargs)]
                s2 == Logged(s1, Event("return", f, n, EmptyMap))
            IN [st |-> [s2 EXCEPT !.cache = StoreInCache(@, resolved)],
                fixture |-> resolved]

\* ReturnCached handing back the new, unresolved wrapper
ReturnCachedFresh(fixture, cached_fixture) == fixture

\* return cached_fixture: a cache hit answers with the stored Fixture
ReturnCached(fixture, cached_fixture) == cached_fixture

\* SetLastResolved recording the module of the factory, not of the test
SetLastResolvedFixtureModule(fixture, self) ==
  [fixture EXCEPT !.last_resolved_test_id = self.id,
                  !.last_resolved_module_name = "conftest"]

\* the bookkeeping of a cache miss, written before anything is invoked
SetLastResolved(fixture, self) ==
  [fixture EXCEPT !.last_resolved_test_id = self.id,
                  !.last_resolved_module_name = self.module_name]

\* PropagateChildError wrapping the child's error for the dependent
PropagateChildErrorWrapped(fixture, st) ==
  [st |-> [st EXCEPT !.err = FixtureError(fixture.fn, @)], fixture |-> None]

\* an exception raised while a child is resolved leaves
\* _resolve_single_fixture as it is: the loop is not inside a try
PropagateChildError(fixture, st) == [st |-> st, fixture |-> None]

\* the name under which the log records a value that is not a factory
Unmarked == "<unmarked>"

\* _resolve_single_fixture applied to a value that is not marked as a
\* fixture factory: the value is wrapped in a Fixture all the same; either
\* reading the wrapper's key, scope or deps raises, outside any try, or the
\* wrapper is taken for a fixture without dependencies and calling the
\* value raises TypeError, which becomes a FixtureError
ResolveUnmarked(arg, st) ==
  LET s0 == Logged(st, Event("request", Unmarked, 0, EmptyMap))
  IN [st |-> [s0 EXCEPT !.err =
                IF st.unmarked = "FixtureError"
                  THEN FixtureError(Unmarked, [kind |-> "TypeError"])
                  ELSE [kind |-> st.unmarked]],
      fixture |-> None]

RECURSIVE ResolveSingleFixture(_, _, _, _, _)
RECURSIVE ResolveChildren(_, _, _, _, _, _, _)

\* the loop over children_defaults.arguments, from position i on
ResolveChildren(self, params, i, children_resolved, sc, st, raiser) ==
  IF i > Len(params)
    THEN [st |-> st, resolved |-> children_resolved]
    ELSE LET child_fixture == params[i].default
             r == IF IsFixtureFn(child_fixture)
                    THEN ResolveSingleFixture(self, child_fixture.f, sc, st, raiser)
                    ELSE ResolveUnmarked(child_fixture, st)
         IN IF r.st.err # None
              THEN [st |-> r.st, resolved |-> children_resolved]
              ELSE ResolveChildren(self, params, i + 1,
                     (params[i].name :> r.fixture) @@ children_resolved,
                     sc, r.st, raiser)

ResolveSingleFixture(self, fixture_fn, sc, st, raiser) ==
  LET fresh == NewFixture(fixture_fn)
      s0    == Logged(st, Event("request", fixture_fn, 0, EmptyMap))
  IN IF IsCacheHit(self, fresh, sc, st.cache)
       THEN [st |-> s0, fixture |-> ReturnCached(fresh, st.cache[FixtureKey(fresh)])]
       ELSE LET fixture == SetLastResolved(fresh, self)
            IN IF Len(FixtureDeps(fixture)) = 0
                 THEN InvokeFactory(fixture, EmptyMap, s0, raiser)
                 ELSE LET kids == ResolveChildren(self, FixtureDeps(fixture), 1,
                                                  EmptyMap, sc, s0, raiser)
                      IN IF kids.st.err # None
                           THEN PropagateChildError(fixture, kids.st)
                           ELSE InvokeFactory(fixture,
                                  ResolveFixtureValues(kids.resolved),
                                  kids.st, raiser)

(***************************************************************************)
(* The Test dataclass.                                                     *)
(***************************************************************************)
\* GenerateId returning the same identifier every time
GenerateIdConstant(next) == 1

\* generate_id: uuid4().hex, a random 128-bit identifier taken to be unique:
\* modelled as the next unused identifier
GenerateId(next) == next

\* Test(fn=..., module_name=..., marker=..., description=...) with a default id
NewTest(fn, module_name, marker, description, next) ==
  [fn |-> fn, module_name |-> module_name, id |-> GenerateId(next),
   marker |-> marker, description |-> description]

\* Test.deps(): the parameters of the signature
Deps(self) == TestParams[self.fn]

\* Test.has_deps
HasDeps(self) == Len(Deps(self)) > 0

\* Test._get_default_args(): the parameters that have a default, in order
GetDefaultArgs(self) ==
  SelectSeq(TestParams[self.fn], LAMBDA p : p.default # None)

\* IsParameterised testing the argument names (the keys of default_args)
\* instead of the values: a name is never an Each
IsParameterisedKeys(self) ==
  \E i \in 1 .. Len(GetDefaultArgs(self)) : GetDefaultArgs(self)[i].name = "each"

\* Test.is_parameterised
IsParameterised(self) ==
  \E i \in 1 .. Len(GetDefaultArgs(self)) : IsEach(GetDefaultArgs(self)[i].default)

\* lengths = [len(arg) for _, arg in default_args.items() if isinstance(arg, Each)]
EachLengths(self) ==
  LET eachs == SelectSeq(GetDefaultArgs(self), LAMBDA p : IsEach(p.default))
  IN [i \in 1 .. Len(eachs) |-> EachLen(eachs[i].default)]

\* FindNumberOfInstances without the check of the lengths
FindNumberOfInstancesUnchecked(self) ==
  [is_valid |-> TRUE, n |-> EachLengths(self)[1]]

\* Test._find_number_of_instances: is_valid, and lengths[0] when it is
\* (the caller has checked is_parameterised, so lengths is not empty)
FindNumberOfInstances(self) ==
  LET lengths  == EachLengths(self)
      distinct == {lengths[i] : i \in 1 .. Len(lengths)}
  IN IF Cardinality(distinct) \in {0, 1}
       THEN [is_valid |-> TRUE, n |-> lengths[1]]
       ELSE [is_valid |-> FALSE, n |-> 0]

\* StoreResolved unwrapping a Fixture to its resolved_val
StoreResolvedValue(resolved_args, name, resolved) ==
  (name :> (IF resolved.kind = "Fixture" THEN resolved.resolved_val ELSE resolved))
    @@ resolved_args

\* resolved_args[name] = resolved
StoreResolved(resolved_args, name, resolved) ==
  (name :> resolved) @@ resolved_args

\* the loop of Test.resolve_args over default_args.items(), from position i on
RECURSIVE ResolveArgsLoop(_, _, _, _, _, _, _, _)
ResolveArgsLoop(self, default_args, i, resolved_args, iteration, sc, st, raiser) ==
  IF i > Len(default_args)
    THEN [st |-> st, resolved_args |-> resolved_args]
    ELSE
      LET arg0 == default_args[i].default
          name == default_args[i].name
      IN IF IsEach(arg0) /\ iteration >= EachLen(arg0)
           THEN [st |-> [st EXCEPT !.err = [kind |-> "IndexError"]],
                 resolved_args |-> resolved_args]
           ELSE
             LET arg == IF IsEach(arg0) THEN EachGetItem(arg0, iteration) ELSE arg0
                 r   == IF IsFixtureFn(arg)
                          THEN ResolveSingleFixture(self, arg.f, sc, st, raiser)
                          ELSE [st |-> st, fixture |-> arg]
             IN IF r.st.err # None
                  THEN [st |-> r.st, resolved_args |-> resolved_args]
                  ELSE ResolveArgsLoop(self, default_args, i + 1,
                         StoreResolved(resolved_args, name, r.fixture),
                         iteration, sc, r.st, raiser)

\* ResolveArgs with a bare return for a test without parameters
ResolveArgsBareReturn(self, iteration, sc, st, raiser) ==
  IF ~HasDeps(self)
    THEN [st |-> st, resolved_args |-> None]
    ELSE ResolveArgsLoop(self, GetDefaultArgs(self), 1, EmptyMap,
                         iteration, sc, st, raiser)

\* Test.resolve_args(cache, iteration)
ResolveArgs(self, iteration, sc, st, raiser) ==
  IF ~HasDeps(self)
    THEN [st |-> st, resolved_args |-> EmptyMap]
    ELSE ResolveArgsLoop(self, GetDefaultArgs(self), 1, EmptyMap,
                         iteration, sc, st, raiser)

(***************************************************************************)
(* The state machine.                                                      *)
(***************************************************************************)
NoFixture == "none"

Outcome(op, test, iteration, status, value, error) ==
  [op |-> op, test |-> test, iteration |-> iteration, status |-> status,
   value |-> value, error |-> error]

\* the iteration indices the orchestrator passes for a test: 0 for a test
\* that is not parameterised, 0 .. n-1 for a parameterised one; a test whose
\* expansion raises ParameterisationError is never resolved
Iterations(self) ==
  IF ~IsParameterised(self) THEN {0}
  ELSE IF FindNumberOfInstances(self).is_valid
         THEN 0 .. FindNumberOfInstances(self).n - 1
         ELSE {}

\* the factories a resolution starting at factory f can invoke
RECURSIVE Requires(_)
Requires(f) ==
  {f} \cup UNION {IF IsFixtureFn(FixtureParams[f][i].default)
                     THEN Requires(FixtureParams[f][i].default.f) ELSE {} :
                    i \in 1 .. Len(FixtureParams[f])}

\* the factories self.resolve_args(cache, iteration) can invoke; a factory
\* outside this set cannot raise during the call
Invocable(self, iteration) ==
  LET default_args == GetDefaultArgs(self)
      arg(i) == IF IsEach(default_args[i].default)
                  THEN IF iteration < EachLen(default_args[i].default)
                         THEN EachGetItem(default_args[i].default, iteration)
                         ELSE None
                  ELSE default_args[i].default
  IN UNION {IF IsFixtureFn(arg(i)) THEN Requires(arg(i).f) ELSE {} :
              i \in 1 .. Len(default_args)}

Init ==
  /\ scope \in ScopeConfigs
  /\ tests = [i \in 1 .. Len(DeclaredTests) |->
                NewTest(DeclaredTests[i].fn, DeclaredTests[i].module_name,
                        DeclaredTests[i].marker, DeclaredTests[i].description, i)]
  /\ next_id = Len(DeclaredTests) + 1
  /\ cache = EmptyMap
  /\ calls = [f \in Fixtures |-> 0]
  /\ raised = [f \in Fixtures |-> 0]
  /\ generators = [f \in GeneratorFixtures |-> << >>]
  /\ resolves = 0
  /\ log = << >>
  /\ result = Outcome("init", 0, 0, "ok", EmptyMap, None)

\* what wrapping a value that is not a fixture factory can lead to, for a
\* call that can reach a factory with such a default
UnmarkedOutcomes(self, iteration) ==
  IF \E f \in Invocable(self, iteration) :
       \E i \in 1 .. Len(FixtureParams[f]) : ~IsFixtureFn(FixtureParams[f][i].default)
    THEN {"AttributeError", "FixtureError"}
    ELSE {NoFixture}

\* the orchestrator calls t.resolve_args(cache, iteration); `raiser` is the
\* factory whose body raises during this call, if any
DoResolveArgs(t, iteration, raiser, unmarked) ==
  /\ resolves < MaxResolves
  /\ resolves' = resolves + 1
  /\ LET r == ResolveArgs(tests[t], iteration, scope,
                          [cache |-> cache, calls |-> calls, raised |-> raised,
                           generators |-> generators, log |-> << >>,
                           err |-> None, unmarked |-> unmarked],
                          raiser)
     IN /\ cache' = r.st.cache
        /\ calls' = r.st.calls
        /\ raised' = r.st.raised
        /\ generators' = r.st.generators
        /\ log' = r.st.log
        /\ result' = IF r.st.err = None
                       THEN Outcome("resolve_args", t, iteration, "ok", r.resolved_args, None)
                       ELSE Outcome("resolve_args", t, iteration, r.st.err.kind, EmptyMap, r.st.err)
  /\ UNCHANGED << scope, tests, next_id >>

\* the orchestrator calls t.get_parameterised_instances(); it expands the
\* collected tests into runnable instances before it resolves any of them
DoGetParameterisedInstances(t) ==
  LET self == tests[t]
      r    == FindNumberOfInstances(self)
      n    == r.n
  IN /\ resolves = 0
     /\ IF ~IsParameterised(self)
          THEN /\ result' = Outcome("get_parameterised_instances", t, 0, "ok", << t >>, None)
               /\ UNCHANGED << tests, next_id >>
          ELSE IF ~r.is_valid
          THEN /\ result' = Outcome("get_parameterised_instances", t, 0,
                                    "ParameterisationError", << >>,
                                    [kind |-> "ParameterisationError"])
               /\ UNCHANGED << tests, next_id >>
          ELSE /\ next_id + n - 1 <= MaxTests
               /\ tests' = [i \in DOMAIN tests \cup (next_id .. next_id + n - 1) |->
                              IF i \in DOMAIN tests THEN tests[i]
                              ELSE NewTest(self.fn, self.module_name, self.marker,
                                           self.description, i)]
               /\ next_id' = next_id + n
               /\ result' = Outcome("get_parameterised_instances", t, 0, "ok",
                                    [k \in 1 .. n |-> next_id + k - 1], None)
     /\ UNCHANGED << scope, cache, calls, raised, generators, resolves, log >>

Next ==
  \/ /\ resolves < MaxResolves
     /\ \E t \in DOMAIN tests :
          \E iteration \in Iterations(tests[t]) :
            \E raiser \in Invocable(tests[t], iteration) \cup {NoFixture} :
              \E unmarked \in UnmarkedOutcomes(tests[t], iteration) :
                DoResolveArgs(t, iteration, raiser, unmarked)
  \/ \E t \in DOMAIN tests : DoGetParameterisedInstances(t)

Spec == Init /\ [][Next]_vars

(***************************************************************************)
(* Properties.                                                             *)
(***************************************************************************)
\* the events of one resolve_args call
Requested(f, lg) == \E i \in 1 .. Len(lg) : lg[i].ev = "request" /\ lg[i].f = f

Invoked(f, lg) == \E i \in 1 .. Len(lg) : lg[i].ev = "call" /\ lg[i].f = f

Returned(f, lg) == \E i \in 1 .. Len(lg) : lg[i].ev = "return" /\ lg[i].f = f

Raised(f, lg) == \E i \in 1 .. Len(lg) : lg[i].ev = "raise" /\ lg[i].f = f

\* the step is a call of resolve_args
ResolveStep == resolves' = resolves + 1

\* the arguments of the returned mapping that hold the Fixture of factory f
ArgsOf(f, value) ==
  {name \in DOMAIN value : value[name].kind = "Fixture" /\ value[name].fn = f}

\* C1: once a Global-scope fixture is in the cache (it was resolved
\* successfully), no resolve_args call by any test invokes its factory
\* again or replaces its cache entry, every later request is answered with
\* the cached Fixture, and the factory has returned exactly once.
C1_GlobalResolvedOnce ==
  [][\A f \in Fixtures :
       (scope[f] = "Global" /\ f \in DOMAIN cache) =>
         /\ calls[f] - raised[f] = 1
         /\ calls'[f] = calls[f]
         /\ f \in DOMAIN cache' /\ cache'[f] = cache[f]
         /\ ResolveStep =>
              /\ \A name \in ArgsOf(f, result'.value) : result'.value[name] = cache[f]
              /\ \A i \in 1 .. Len(log') :
                   (/\ log'[i].ev = "call"
                    /\ Len(FixtureParams[log'[i].f]) > 0
                    /\ FixtureParams[log'[i].f][1].default = FixtureRef(f))
                   => log'[i].kwargs[FixtureParams[log'[i].f][1].name]
                        = cache[f].resolved_val]_vars

\* a Global-scope fixture resolved for one module has been requested by a
\* test of another module, which got the cached Fixture
C1_Witness ==
  /\ result.op = "resolve_args" /\ result.status = "ok"
  /\ \E f \in Fixtures :
       /\ scope[f] = "Global" /\ f \in DOMAIN cache
       /\ ArgsOf(f, result.value) # {}
       /\ ~Invoked(f, log)
       /\ cache[f].last_resolved_module_name # tests[result.test].module_name
       /\ calls[f] = 1

\* C2: a Module-scope fixture in the cache that a test requests is reused
\* (factory not invoked, entry unchanged) when the test's module_name equals
\* the entry's last_resolved_module_name; when it differs the fixture is
\* re-resolved: its factory is invoked once more and, when it returns, the
\* entry is overwritten by a Fixture recording the requesting module (the
\* only other outcome is that the re-resolution raises).
C2_ModuleScopeReuse ==
  [][ResolveStep =>
       \A f \in Fixtures :
         (scope[f] = "Module" /\ f \in DOMAIN cache /\ Requested(f, log')) =>
           LET self == tests[result'.test] IN
           IF cache[f].last_resolved_module_name = self.module_name
             THEN /\ calls'[f] = calls[f]
                  /\ cache'[f] = cache[f]
                  /\ \A name \in ArgsOf(f, result'.value) :
                       result'.value[name] = cache[f]
             ELSE \/ /\ Returned(f, log')
                     /\ calls'[f] = calls[f] + 1
                     /\ cache'[f] # cache[f]
                     /\ cache'[f].resolved_val.n = calls'[f]
                     /\ cache'[f].last_resolved_module_name = self.module_name
                  \/ /\ result'.status = "FixtureError"
                     /\ result'.error.fixture \in Requires(f)
                     /\ Raised(result'.error.fixture, log')
                     /\ ~Returned(f, log')]_vars

\* fc has Module scope; it was resolved for module M, reused by a second
\* test of M, and re-resolved for a test of module N: invocation count 2
C2_Witness ==
  /\ scope["fc"] = "Module" /\ "fc" \in DOMAIN cache
  /\ resolves = 3 /\ calls["fc"] = 2 /\ raised["fc"] = 0
  /\ result.op = "resolve_args" /\ result.status = "ok"
  /\ tests[result.test].module_name = "N"
  /\ cache["fc"].last_resolved_module_name = "N"
  /\ cache["fc"].resolved_val.n = 2
  /\ Invoked("fc", log)

\* C3: a Test-scope fixture in the cache that a test requests is reused when
\* the requesting Test's id equals the entry's last_resolved_test_id, and
\* is re-resolved (factory invoked once more) when the id differs, also when
\* the requesting test has the same function and module as the recorded one.
C3_TestScopeReuse ==
  [][ResolveStep =>
       \A f \in Fixtures :
         (scope[f] = "Test" /\ f \in DOMAIN cache /\ Requested(f, log')) =>
           LET self == tests[result'.test] IN
           IF cache[f].last_resolved_test_id = self.id
             THEN /\ calls'[f] = calls[f]
                  /\ cache'[f] = cache[f]
                  /\ \A name \in ArgsOf(f, result'.value) :
                       result'.value[name] = cache[f]
             ELSE \/ /\ Returned(f, log')
                     /\ calls'[f] = calls[f] + 1
                     /\ cache'[f] # cache[f]
                     /\ cache'[f].resolved_val.n = calls'[f]
                     /\ cache'[f].last_resolved_test_id = self.id
                  \/ /\ result'.status = "FixtureError"
                     /\ result'.error.fixture \in Requires(f)
                     /\ Raised(result'.error.fixture, log')
                     /\ ~Returned(f, log')]_vars

\* fc has Test scope and only parameterised instances of t_each requested
\* it: two resolve_args calls, the second by an instance that has the same
\* function and module as the first but another id, and two invocations
C3_Witness ==
  /\ scope["fc"] = "Test" /\ "fc" \in DOMAIN cache
  /\ resolves = 2 /\ calls["fc"] = 2 /\ raised["fc"] = 0
  /\ \A f \in Fixtures \ {"fc"} : calls[f] = 0
  /\ result.op = "resolve_args" /\ result.status = "ok"
  /\ result.test > Len(DeclaredTests)
  /\ tests[result.test].fn = "t_each"
  /\ cache["fc"].last_resolved_test_id = result.test
  /\ cache["fc"].resolved_val.n = 2

\* the default of a parameter as resolve_args sees it at an iteration index
ArgAt(param, iteration) ==
  IF IsEach(param.default) THEN EachGetItem(param.default, iteration)
  ELSE param.default

\* C4 (as claimed): when resolve_args raises FixtureError for a factory that
\* raised, the error's cause is the factory's exception and the cache does
\* not hold an entry for that factory's key afterwards, whatever the cache
\* held before the call.
C4_FailedFixtureNotCached ==
  (/\ result.op = "resolve_args" /\ result.status = "FixtureError"
   /\ result.error.fixture \in Fixtures) =>
    /\ result.error.kind = "FixtureError"
    /\ Raised(result.error.fixture, log)
    /\ result.error.cause
         = FactoryException(result.error.fixture, calls[result.error.fixture])
    /\ result.error.fixture \notin DOMAIN cache

Pos(ev, f, lg) == CHOOSE i \in 1 .. Len(lg) : lg[i].ev = ev /\ lg[i].f = f

\* C6: the chain fa -> fb -> fc resolved on an empty cache (the first
\* resolve_args call of the run, for t_chain): fc's factory is invoked and
\* returns before fb's is invoked, fb's returns before fa's is invoked; each
\* factory receives the resolved value of its dependency; afterwards all
\* three are in the cache under their own keys.
C6_ChainOrder ==
  (/\ resolves = 1 /\ result.op = "resolve_args" /\ result.status = "ok"
   /\ tests[result.test].fn = "t_chain") =>
    /\ \A f \in {"fa", "fb", "fc"} : Invoked(f, log) /\ Returned(f, log)
    /\ Pos("call", "fc", log) < Pos("return", "fc", log)
    /\ Pos("return", "fc", log) < Pos("call", "fb", log)
    /\ Pos("call", "fb", log) < Pos("return", "fb", log)
    /\ Pos("return", "fb", log) < Pos("call", "fa", log)
    /\ Pos("call", "fa", log) < Pos("return", "fa", log)
    /\ log[Pos("call", "fc", log)].kwargs = EmptyMap
    /\ log[Pos("call", "fb", log)].kwargs = [c \in {"c"} |-> cache["fc"].resolved_val]
    /\ log[Pos("call", "fa", log)].kwargs = [b \in {"b"} |-> cache["fb"].resolved_val]
    /\ {"fa", "fb", "fc"} \subseteq DOMAIN cache
    /\ \A f \in {"fa", "fb", "fc"} :
         /\ FixtureKey(cache[f]) = f
         /\ cache[f].resolved_val.kind = "val"
         /\ cache[f].resolved_val.f = f
         /\ cache[f].resolved_val.n = 1

\* the first resolve_args call of the run resolved t_chain successfully
C6_Witness ==
  /\ resolves = 1 /\ result.op = "resolve_args" /\ result.status = "ok"
  /\ tests[result.test].fn = "t_chain"
  /\ \A f \in {"fa", "fb", "fc"} : calls[f] = 1 /\ f \in DOMAIN cache
  /\ Len(log) = 9

\* the step is a call of get_parameterised_instances
ExpandStep == result'.op = "get_parameterised_instances"

\* the Each values among the declared defaults of a test function
EachDefaults(fn) ==
  {TestParams[fn][i].default : i \in {j \in 1 .. Len(TestParams[fn]) :
                                        TestParams[fn][j].default.kind = "each"}}

\* C7: for a parameterised test whose Each defaults all have length n,
\* get_parameterised_instances returns exactly n Test objects that did not
\* exist before, with ids pairwise distinct and distinct from the
\* original's, and with the original's fn, module_name, marker, description.
C7_InstancesOfValidParameterisation ==
  [][ExpandStep =>
       LET self  == tests[result'.test]
           lens  == {Len(e.args) : e \in EachDefaults(self.fn)}
           insts == result'.value
       IN Cardinality(lens) = 1 =>
            /\ result'.status = "ok"
            /\ \A n \in lens : Len(insts) = n
            /\ \A k \in 1 .. Len(insts) :
                 /\ insts[k] \notin DOMAIN tests
                 /\ insts[k] \in DOMAIN tests'
                 /\ tests'[insts[k]].id # self.id
                 /\ tests'[insts[k]].fn = self.fn
                 /\ tests'[insts[k]].module_name = self.module_name
                 /\ tests'[insts[k]].marker = self.marker
                 /\ tests'[insts[k]].description = self.description
                 /\ \A j \in 1 .. Len(insts) :
                      j # k => /\ insts[j] # insts[k]
                               /\ tests'[insts[j]].id # tests'[insts[k]].id
            /\ \A o \in DOMAIN tests : tests'[o] = tests[o]]_vars

\* t_each (two Each defaults of length 2) has been expanded into 2 instances
C7_Witness ==
  /\ result.op = "get_parameterised_instances" /\ result.status = "ok"
  /\ tests[result.test].fn = "t_each"
  /\ Len(result.value) = 2
  /\ Cardinality(DOMAIN tests) = Len(DeclaredTests) + 2

\* C8: when the Each defaults of a test have more than one distinct length,
\* get_parameterised_instances raises ParameterisationError, returns no
\* instance and constructs no Test.
C8_InvalidParameterisationRaises ==
  [][ExpandStep =>
       LET self == tests[result'.test]
           lens == {Len(e.args) : e \in EachDefaults(self.fn)}
       IN Cardinality(lens) > 1 =>
            /\ result'.status = "ParameterisationError"
            /\ result'.error.kind = "ParameterisationError"
            /\ result'.value = << >>
            /\ tests' = tests
            /\ next_id' = next_id]_vars

\* the expansion of t_bad (Each defaults of length 2 and 3) has raised
C8_Witness ==
  /\ result.op = "get_parameterised_instances"
  /\ tests[result.test].fn = "t_bad"
  /\ result.status = "ParameterisationError"
  /\ Cardinality(DOMAIN tests) = Len(DeclaredTests)

\* C9: is_parameterised is true exactly when some default is an Each; for a
\* test without one, get_parameterised_instances returns the one-element
\* list of the test itself and constructs no Test.
C9_NotParameterisedReturnsSelf ==
  [][ExpandStep =>
       /\ \A o \in DOMAIN tests :
            IsParameterised(tests[o]) <=> (EachDefaults(tests[o].fn) # {})
       /\ EachDefaults(tests[result'.test].fn) = {} =>
            /\ ~IsParameterised(tests[result'.test])
            /\ result'.status = "ok"
            /\ result'.value = << result'.test >>
            /\ tests' = tests
            /\ tests'[result'.test].id = tests[result'.test].id
            /\ next_id' = next_id]_vars

\* t_diamond, which has fixture and literal defaults but no Each, has been
\* expanded
C9_Witness ==
  /\ result.op = "get_parameterised_instances" /\ result.status = "ok"
  /\ tests[result.test].fn = "t_diamond"
  /\ result.value = << result.test >>

\* C10: a successful resolve_args(cache, i) maps every argument whose
\* default is an Each to what its element at index i resolves to (the
\* Fixture of the factory when the element is a fixture factory, which was
\* requested from the cache; the element itself otherwise), and every
\* literal default to itself.
C10_EachSubstitutedAtIteration ==
  (result.op = "resolve_args" /\ result.status = "ok") =>
    LET fn == tests[result.test].fn IN
    \A i \in 1 .. Len(TestParams[fn]) :
      LET d   == TestParams[fn][i].default
          got == result.value[TestParams[fn][i].name]
      IN /\ d.kind = "each" =>
              LET elem == d.args[result.iteration + 1] IN
              IF elem.kind = "fix"
                THEN /\ got.kind = "Fixture" /\ got.fn = elem.f
                     /\ Requested(elem.f, log)
                ELSE got = elem
         /\ d.kind = "lit" => got = d

\* an instance of t_each was resolved at iteration 1: x is the literal 1, y
\* the Fixture of fe, z the literal 7
C10_Witness ==
  /\ result.op = "resolve_args" /\ result.status = "ok"
  /\ tests[result.test].fn = "t_each" /\ result.iteration = 1
  /\ result.value["x"] = Lit(1)
  /\ result.value["y"].kind = "Fixture" /\ result.value["y"].fn = "fe"
  /\ result.value["z"] = Lit(7)

\* the fixture factories among the arguments resolve_args resolves for a
\* test at an iteration index
TopLevelFixtures(self, iteration) ==
  LET params == GetDefaultArgs(self) IN
  {ArgAt(params[i], iteration).f :
     i \in {j \in 1 .. Len(params) : IsFixtureFn(ArgAt(params[j], iteration))}}

\* C11: resolve_args of a test whose function has no parameters returns an
\* empty mapping, invokes no fixture factory and leaves the FixtureCache
\* (keys, stored Fixtures and their bookkeeping) exactly as it was.
C11_NoDepsLeavesCacheUnchanged ==
  [][(ResolveStep /\ TestParams[tests[result'.test].fn] = << >>) =>
       /\ result'.status = "ok"
       /\ result'.value = EmptyMap
       /\ log' = << >>
       /\ cache' = cache
       /\ calls' = calls
       /\ raised' = raised
       /\ generators' = generators]_vars

\* a test without parameters was resolved against a cache that held
\* Fixtures of earlier calls
C11_Witness ==
  /\ result.op = "resolve_args"
  /\ tests[result.test].fn = "t_none"
  /\ resolves >= 2
  /\ DOMAIN cache # {}
  /\ result.value = EmptyMap

\* C12: a request for a fixture whose key is in the cache with an entry the
\* scope rule validates for the requesting test is answered with the stored
\* Fixture: its factory is not invoked and its entry (resolved_val, gen,
\* last_resolved_test_id, last_resolved_module_name) is unchanged; when every
\* fixture argument of the test is such a hit, the call invokes no factory
\* at all, not those of the dependencies either, and the whole cache
\* mapping is unchanged.
C12_CacheHitChangesNothing ==
  [][ResolveStep =>
       LET self == tests[result'.test]
           hit(f) ==
             /\ f \in DOMAIN cache
             /\ CASE scope[f] = "Global" -> TRUE
                  [] scope[f] = "Module" ->
                       cache[f].last_resolved_module_name = self.module_name
                  [] scope[f] = "Test" ->
                       cache[f].last_resolved_test_id = self.id
       IN /\ \A f \in Fixtures :
               (Requested(f, log') /\ hit(f)) =>
                 /\ ~Invoked(f, log')
                 /\ calls'[f] = calls[f]
                 /\ f \in DOMAIN cache' /\ cache'[f] = cache[f]
                 /\ f \in GeneratorFixtures => generators'[f] = generators[f]
                 /\ \A name \in ArgsOf(f, result'.value) :
                      result'.value[name] = cache[f]
          /\ (/\ TopLevelFixtures(self, result'.iteration) # {}
              /\ \A f \in TopLevelFixtures(self, result'.iteration) : hit(f)) =>
               /\ result'.status = "ok"
               /\ \A i \in 1 .. Len(log') : log'[i].ev = "request"
               /\ cache' = cache
               /\ calls' = calls
               /\ raised' = raised
               /\ generators' = generators]_vars

\* the Global-scope fa was a cache hit for a test of module M although the
\* entry of fb, which fa depends on, had been re-resolved for module N and
\* would not have been valid: nothing was invoked
C12_Witness ==
  /\ result.op = "resolve_args" /\ result.status = "ok"
  /\ tests[result.test].fn = "t_chain"
  /\ scope["fa"] = "Global" /\ scope["fb"] = "Module"
  /\ log = << Event("request", "fa", 0, EmptyMap) >>
  /\ result.value["x"] = cache["fa"]
  /\ cache["fb"].last_resolved_module_name # tests[result.test].module_name

\* C13: every invocation of a generator factory resumes its generator
\* exactly once, now and at any later time: the cached Fixture of a
\* generator factory holds the generator of the invocation that produced
\* its resolved_val, suspended after one resumption, and resolved_val is
\* the first value that generator yielded; the cached Fixture of any other
\* factory holds no generator.
C13_GeneratorResumedOnce ==
  /\ \A f \in DOMAIN cache :
       IF f \in GeneratorFixtures
         THEN /\ cache[f].gen = GeneratorHandle(f, cache[f].resolved_val.n, 1)
              /\ cache[f].resolved_val.yield = 1
         ELSE cache[f].gen = None
  /\ \A f \in GeneratorFixtures :
       /\ Len(generators[f]) = calls[f]
       /\ \A n \in 1 .. Len(generators[f]) : generators[f][n] = 1

\* the generator fixture fc was re-resolved and after that answered from
\* the cache, next to a cached fixture that is not a generator
C13_Witness ==
  /\ result.op = "resolve_args" /\ result.status = "ok"
  /\ "fc" \in DOMAIN cache /\ "fb" \in DOMAIN cache
  /\ calls["fc"] >= 2
  /\ Requested("fc", log) /\ ~Invoked("fc", log)
  /\ cache["fc"].gen.resumed = 1
  /\ cache["fb"].gen = None

\* the positions of the log at which factory f is invoked
CallsOf(f, lg) == {i \in 1 .. Len(lg) : lg[i].ev = "call" /\ lg[i].f = f}

\* the positions of the log at which factory f is requested
RequestsOf(f, lg) == {i \in 1 .. Len(lg) : lg[i].ev = "request" /\ lg[i].f = f}

\* C14 (as claimed): when resolution reaches a fixture factory that has a
\* default argument not marked as a fixture factory, the value is not
\* wrapped or resolved as a Fixture; the factory is invoked (unless its
\* cached Fixture is reused) and receives the value unchanged.
C14_UnmarkedDefaultPassedUnchanged ==
  result.op = "resolve_args" =>
    \A f \in Fixtures :
      \A i \in 1 .. Len(FixtureParams[f]) :
        LET p == FixtureParams[f][i] IN
        (~IsFixtureFn(p.default) /\ Requested(f, log)) =>
          /\ ~Requested(Unmarked, log)
          /\ Invoked(f, log) \/ f \in DOMAIN cache
          /\ \A j \in CallsOf(f, log) : log[j].kwargs[p.name] = p.default

\* C15 (as claimed): every Fixture stored in the cache records the id and
\* module_name of the test whose resolve_args call most recently invoked
\* its factory; in particular, after a call that invoked the factory of f,
\* the Fixture stored for f records the test of that call.
C15_CacheRecordsLatestInvoker ==
  result.op = "resolve_args" =>
    \A f \in Fixtures :
      (Invoked(f, log) /\ f \in DOMAIN cache) =>
        /\ cache[f].last_resolved_test_id = tests[result.test].id
        /\ cache[f].last_resolved_module_name = tests[result.test].module_name

\* C16: when the factory g of a dependency raises, the call ends there: the
\* raise is the last event of the call (no sibling argument is resolved
\* after it, nothing is retried), g was invoked once, no factory that
\* depends on g is invoked and the cache entries of the dependents are what
\* they were, and the FixtureError that leaves resolve_args is the one
\* raised for g, with the exception of g's factory as its direct cause.
C16_DependencyFailureSurfaces ==
  [][(/\ ResolveStep
      /\ result'.status = "FixtureError"
      /\ result'.error.fixture \in Fixtures) =>
       LET g == result'.error.fixture IN
       /\ log'[Len(log')] = Event("raise", g, calls'[g], EmptyMap)
       /\ \A i \in 1 .. Len(log') - 1 : log'[i].ev # "raise"
       /\ Cardinality(CallsOf(g, log')) = 1
       /\ calls'[g] = calls[g] + 1
       /\ result'.error = FixtureError(g, FactoryException(g, calls'[g]))
       /\ \A f \in Fixtures \ {g} :
            g \in Requires(f) =>
              /\ ~Invoked(f, log')
              /\ calls'[f] = calls[f]
              /\ (f \in DOMAIN cache') = (f \in DOMAIN cache)
              /\ f \in DOMAIN cache => cache'[f] = cache[f]]_vars

\* t_diamond asked for fd, whose dependency fc raised: fd was not invoked
\* and is not in the cache, and the sibling argument fb was never requested
C16_Witness ==
  /\ result.op = "resolve_args" /\ result.status = "FixtureError"
  /\ tests[result.test].fn = "t_diamond"
  /\ result.error.fixture = "fc"
  /\ Requested("fd", log) /\ ~Invoked("fd", log)
  /\ "fd" \notin DOMAIN cache
  /\ ~Requested("fb", log)

\* C17: a resolve_args call that succeeds has invoked each factory at most
\* once, whatever the scopes and however many paths of the dependency
\* graph reach the factory.
C17_EachFactoryInvokedAtMostOnce ==
  (result.op = "resolve_args" /\ result.status = "ok") =>
    \A f \in Fixtures : Cardinality(CallsOf(f, log)) <= 1

\* the diamond: t_diamond needs fd, fb and fc, fd and fb both need fc; the
\* Test-scope fc was requested three times and invoked once
C17_Witness ==
  /\ result.op = "resolve_args" /\ result.status = "ok"
  /\ tests[result.test].fn = "t_diamond"
  /\ scope["fc"] = "Test"
  /\ Cardinality(RequestsOf("fc", log)) = 3
  /\ Cardinality(CallsOf("fc", log)) = 1
  /\ Invoked("fd", log) /\ Invoked("fb", log)

\* the value of fixture C in the returned mapping is the value the factory
\* of fixture P, also in the mapping, was invoked with
Coherent(P, C) ==
  \A i \in 1 .. Len(FixtureParams[P.fn]) :
    FixtureParams[P.fn][i].default = FixtureRef(C.fn) =>
      P.resolved_val.args[FixtureParams[P.fn][i].name] = C.resolved_val

\* C18 (as claimed): whenever the arguments returned to a test contain a
\* fixture P and a fixture C that P depends on, the value of C handed to
\* the test is the value P's factory was invoked with.
C18_DependencyCoherence ==
  (result.op = "resolve_args" /\ result.status = "ok") =>
    \A pn \in DOMAIN result.value :
      \A cn \in DOMAIN result.value :
        (result.value[pn].kind = "Fixture" /\ result.value[cn].kind = "Fixture") =>
          Coherent(result.value[pn], result.value[cn])

\* C18 (amended): whenever the arguments returned to a test contain a
\* fixture P and a fixture C that P depends on, and P's factory was invoked
\* during that resolve_args call, the value of C handed to the test is the
\* value P's factory was invoked with.
C18_CoherenceWhenResolvedInCall ==
  (result.op = "resolve_args" /\ result.status = "ok") =>
    \A pn \in DOMAIN result.value :
      \A cn \in DOMAIN result.value :
        (/\ result.value[pn].kind = "Fixture" /\ result.value[cn].kind = "Fixture"
         /\ Invoked(result.value[pn].fn, log)) =>
          Coherent(result.value[pn], result.value[cn])

\* t_diamond got fd and fc, fd was invoked in the call with the value of an
\* fc that was itself re-resolved in the call
C18_Witness ==
  /\ result.op = "resolve_args" /\ result.status = "ok"
  /\ tests[result.test].fn = "t_diamond"
  /\ Invoked("fd", log) /\ Invoked("fc", log)
  /\ calls["fc"] >= 2
  /\ result.value["p"].resolved_val.args["c"] = result.value["c"].resolved_val

\* C19: after a successful request for a Module-scope fixture the cached
\* Fixture records the module of the requester, and the request invoked the
\* factory exactly when the cache had no entry or the entry recorded
\* another module: the factory runs once per maximal run of consecutive
\* requests from one module, three times for the modules M, N, M.
C19_ModuleScopeFollowsLatestRequester ==
  [][(ResolveStep /\ result'.status = "ok") =>
       \A f \in Fixtures :
         (scope[f] = "Module" /\ Requested(f, log')) =>
           LET self == tests[result'.test] IN
           /\ cache'[f].last_resolved_module_name = self.module_name
           /\ calls'[f] = calls[f] +
                (IF /\ f \in DOMAIN cache
                    /\ cache[f].last_resolved_module_name = self.module_name
                   THEN 0 ELSE 1)]_vars

\* the Module-scope fc was requested by tests of the modules M, N, M, every
\* request succeeded, and the factory was invoked three times
C19_Witness ==
  /\ result.op = "resolve_args" /\ result.status = "ok"
  /\ scope["fc"] = "Module"
  /\ resolves = 3
  /\ calls["fc"] = 3 /\ raised["fc"] = 0
  /\ Invoked("fc", log)
  /\ tests[result.test].module_name = "M"
  /\ cache["fc"].last_resolved_module_name = "M"

\* C20: the cache holds one Fixture per key, stored under its own key; when
\* a generator fixture that is in the cache is resolved again, the new
\* Fixture with the generator of the new invocation replaces the entry, the
\* generator of the old entry has still been resumed only once, and no
\* entry of the cache holds it any more.
C20_OverwriteDropsOldGenerator ==
  [][ResolveStep =>
       /\ \A k \in DOMAIN cache' : FixtureKey(cache'[k]) = k
       /\ \A f \in GeneratorFixtures :
            (f \in DOMAIN cache /\ Returned(f, log')) =>
              LET old == cache[f].gen IN
              /\ cache'[f].gen = GeneratorHandle(f, calls'[f], 1)
              /\ old.n < calls'[f]
              /\ generators'[f][old.n] = 1
              /\ \A k \in DOMAIN cache' : cache'[k].gen # old]_vars

\* the generator fixture fc was resolved twice; the cache holds the
\* generator of the second invocation, the first one was resumed once
C20_Witness ==
  /\ result.op = "resolve_args" /\ result.status = "ok"
  /\ Returned("fc", log)
  /\ calls["fc"] = 2 /\ raised["fc"] = 0
  /\ generators["fc"] = << 1, 1 >>
  /\ cache["fc"].gen = GeneratorHandle("fc", 2, 1)
====
